---- MODULE Spec2Model ----
(***************************************************************************)
(* Model of the wgpu bevel filter pass of ruffle                            *)
(* (render/wgpu/src/filters/bevel.rs): the destination-rectangle math,     *)
(* the per-sample-count pipeline cache and the recording done by apply.    *)
(*                                                                         *)
(* Numbers.  f32 values are modelled as exact rationals on fixed grids:    *)
(*   - cos/sin of an angle in thousandths (the tables CosMilli, SinMilli), *)
(*     with the sign of the part below that resolution kept apart          *)
(*     (CosEps, SinEps): an angle is a direction of the table plus a       *)
(*     deviation smaller than the grid, as the 16.16 fixed-point angle of  *)
(*     the filter never hits pi/2 exactly;                                 *)
(*   - a distance in halves of a pixel;                                    *)
(*   - a colour channel as a fraction [num, den].                          *)
(* Rectangle coordinates are far from the i32 limits, so i32 arithmetic is *)
(* integer arithmetic here.                                                *)
(***************************************************************************)
EXTENDS Integers, Sequences, FiniteSets

VARIABLES
    filter,        \* the BevelFilterArgs of the call
    source_rect,   \* calculate_dest_rect: its source_rect argument
    dest_rect,     \* calculate_dest_rect: its result, NoRect before the call
    source,        \* apply: the FilterSource
    blurred,       \* apply: what blur_filter.apply returns for this source
    applied,       \* apply: how many apply calls have returned
    trace,         \* apply: the calls of the last apply, in program order
    buffer,        \* apply: the BevelUniform of the last apply
    filter_group,  \* apply: the bind group of the last apply
    target,        \* apply: the CommandTarget the last apply returned
    pipeline,      \* BevelFilter.pipeline: one OnceLock per sample count
    next_id,       \* identity of the next render pipeline the device creates
    threads,       \* concurrent callers of pipeline(): position and locals
    stored,        \* history: the pipelines ever stored, per sample count
    returned       \* history: the pipelines ever returned, per sample count

vars == <<filter, source_rect, dest_rect, source, blurred, applied, trace,
          buffer, filter_group, target, pipeline, next_id, threads, stored,
          returned>>

rectVars == <<source_rect, dest_rect>>
applyVars == <<source, blurred, applied, trace, buffer, filter_group, target>>
cacheVars == <<pipeline, next_id, stored, returned>>

\* ------------------------------------------------------------------ bounds

MaxDist == 10      \* distances 0 .. MaxDist halves of a pixel
MaxSide == 1       \* source rectangles have sides 1 .. MaxSide
MaxBlur == 1       \* the blur sub-filter grows a rectangle by 0 .. MaxBlur
MaxStrength == 1   \* strengths 0 .. MaxStrength
MaxApplies == 2    \* apply calls in one behaviour
MaxCalls == 2      \* pipeline() calls per concurrent caller
NumThreads == 2    \* concurrent callers of pipeline()

\* ------------------------------------------------------------ arithmetic

Abs(n) == IF n < 0 THEN -n ELSE n

Sgn(n) == IF n < 0 THEN -1 ELSE IF n > 0 THEN 1 ELSE 0

\* Directions k * pi/4, k = 0 .. 7.
Dirs == 0 .. 7

\* f32::cos and f32::sin at the directions, in thousandths.
CosMilli == <<1000, 707, 0, -707, -1000, -707, 0, 707>>

SinMilli == <<0, 707, 1000, 707, 0, -707, -1000, -707>>

\* An angle: a direction plus a deviation below the grid, of sign delta.
Angles == [dir : Dirs, delta : {-1, 0, 1}]

cos(angle) == CosMilli[angle.dir + 1]

sin(angle) == SinMilli[angle.dir + 1]

\* Sign of cos(angle) - cos(direction): d/dt cos = -sin.  It is zero where
\* |cos| = 1, as the deviation is of second order there and f32 rounds it off.
CosEps(angle) == -angle.delta * Sgn(sin(angle))

\* Sign of sin(angle) - sin(direction): d/dt sin = cos.
SinEps(angle) == angle.delta * Sgn(cos(angle))

\* (c * distance).ceil() as i32, c in thousandths (plus a part of sign eps
\* below the grid), distance in halves: the least integer >= the product.
CeilMul(milli, eps, dist) ==
    LET num == milli * dist
        floor == num \div 2000
    IN  IF num % 2000 # 0 THEN floor + 1
        ELSE IF eps > 0 /\ dist > 0 THEN floor + 1
        ELSE floor

\* ---------------------------------------------------------- filter inputs

NoRect == [none |-> TRUE]
None == [none |-> TRUE]

Flags == {"INNER_SHADOW", "KNOCKOUT", "ON_TOP"}

Channels == {0, 128, 255}

Colors == [r : Channels, g : Channels, b : Channels, a : Channels]

RGBA(r, g, b, a) == [r |-> r, g |-> g, b |-> b, a |-> a]

is_inner(f) == "INNER_SHADOW" \in f.flags

is_on_top(f) == "ON_TOP" \in f.flags

is_knockout(f) == "KNOCKOUT" \in f.flags

inner_blur_filter(f) == [blur_x |-> f.blur_x, blur_y |-> f.blur_y]

Rect(x0, x1, y0, y1) == [x_min |-> x0, x_max |-> x1, y_min |-> y0, y_max |-> y1]

SourceRects ==
    {Rect(x, x + w, y, y + h) : x \in -1 .. 0, y \in -1 .. 0,
                                w \in 1 .. MaxSide, h \in 1 .. MaxSide}

\* BlurFilter::calculate_dest_rect: the rectangle grown by the blur radii.
BlurDestRect(bf, rect) ==
    Rect(rect.x_min - bf.blur_x, rect.x_max + bf.blur_x,
         rect.y_min - bf.blur_y, rect.y_max + bf.blur_y)

\* ------------------------------------------------- calculate_dest_rect

\* GrowX without the branch on the sign: what fits x >= 0 applied to every x.
GrowXUnsigned(result, x) ==
    [result EXCEPT !.x_max = result.x_max + x, !.x_min = result.x_min - x]

\* Lines 138-144: the x branch on the sign of x.
GrowX(result, x) ==
    IF x < 0
    THEN [result EXCEPT !.x_min = result.x_min + x, !.x_max = result.x_max - x]
    ELSE [result EXCEPT !.x_max = result.x_max + x, !.x_min = result.x_min - x]

\* Lines 145-151: the y branch on the sign of y.
GrowY(result, y) ==
    IF y < 0
    THEN [result EXCEPT !.y_min = result.y_min + y, !.y_max = result.y_max - y]
    ELSE [result EXCEPT !.y_max = result.y_max + y, !.y_min = result.y_min - y]

\* Line 136: let x = (angle.cos() * distance).ceil() as i32.
OffsetX(f) == CeilMul(cos(f.angle), CosEps(f.angle), f.distance)

\* Line 137: let y = (angle.sin() * distance).ceil() as i32.
OffsetY(f) == CeilMul(sin(f.angle), SinEps(f.angle), f.distance)

calculate_dest_rect(f, rect) ==
    LET result == BlurDestRect(inner_blur_filter(f), rect)
    IN  GrowY(GrowX(result, OffsetX(f)), OffsetY(f))

\* -------------------------------------------------------------- uniform

\* f32::from(c) / 255.0
Normalize(c) == [num |-> c, den |-> 255]

\* MulAlpha left out: the channel stays as normalised.
MulAlphaSkipped(x, a) == x

\* color[i] *= color[3]
MulAlpha(x, a) == [num |-> x.num * a.num, den |-> x.den * a.den]

\* Lines 200-208: normalise the four channels, then multiply the three
\* colour channels by the normalised alpha.
HighlightColor(f) ==
    LET c == f.highlight_color
        a == Normalize(c.a)
    IN  [r |-> MulAlpha(Normalize(c.r), a), g |-> MulAlpha(Normalize(c.g), a),
         b |-> MulAlpha(Normalize(c.b), a), a |-> a]

\* Lines 209-217: the same for the shadow colour.
ShadowColor(f) ==
    LET c == f.shadow_color
        a == Normalize(c.a)
    IN  [r |-> MulAlpha(Normalize(c.r), a), g |-> MulAlpha(Normalize(c.g), a),
         b |-> MulAlpha(Normalize(c.b), a), a |-> a]

\* BevelType with the two tests in the other order.
BevelTypeInnerFirst(f) == IF is_inner(f) THEN 1 ELSE IF is_on_top(f) THEN 2 ELSE 0

\* Lines 226-232.
BevelType(f) == IF is_on_top(f) THEN 2 ELSE IF is_inner(f) THEN 1 ELSE 0

\* Line 233.
Knockout(f) == IF is_knockout(f) THEN 1 ELSE 0

\* Lines 222-235: the BevelUniform handed to create_buffer_init.
BevelUniform(f) ==
    [highlight_color |-> HighlightColor(f),
     shadow_color |-> ShadowColor(f),
     strength |-> f.strength,
     bevel_type |-> BevelType(f),
     knockout |-> Knockout(f),
     composite_source |-> 1]

\* BlurOffset with cos and sin exchanged.
BlurOffsetSwapped(f) == <<sin(f.angle) * f.distance, cos(f.angle) * f.distance>>

\* Line 185: (angle.cos() * distance, angle.sin() * distance), in 1/2000.
BlurOffset(f) == <<cos(f.angle) * f.distance, sin(f.angle) * f.distance>>

\* ------------------------------------------------------- pipeline cache

\* The keys of SampleCountMap.
SampleCounts == {1, 2, 4, 8, 16}

NoPipeline == [id |-> 0, count |-> 0, format |-> "none"]

EmptySlot == [state |-> "incomplete", value |-> NoPipeline]

\* Lines 91-123: the render pipeline create_render_pipeline builds.
NewPipeline(msaa_sample_count, id) ==
    [id |-> id, count |-> msaa_sample_count, format |-> "Rgba8Unorm"]

\* SampleCountMap::get_or_init picks the slot of the sample count.
SlotOf(msaa_sample_count) == msaa_sample_count

\* Lines 89-125 run by one caller alone: the pipeline returned.
PipelineFor(cache, msaa_sample_count, id) ==
    IF cache[SlotOf(msaa_sample_count)].state = "complete"
    THEN cache[SlotOf(msaa_sample_count)].value
    ELSE NewPipeline(msaa_sample_count, id)

\* Lines 89-125 run by one caller alone: the cache afterwards.
CacheAfter(cache, msaa_sample_count, id) ==
    IF cache[SlotOf(msaa_sample_count)].state = "complete"
    THEN cache
    ELSE [cache EXCEPT ![SlotOf(msaa_sample_count)] =
              [state |-> "complete", value |-> NewPipeline(msaa_sample_count, id)]]

\* ---------------------------------------------------------------- apply

Op(name, arg) == [op |-> name, arg |-> arg]

View(texture) == [view_of |-> texture.id]

\* BlurredTexture that ignores the blur target.
BlurredTextureSource(src, blur) == src.texture

\* Lines 175-180: the texture read as the blurred input.
BlurredTexture(src, blur) == IF blur = None THEN src.texture ELSE blur.color_texture

\* Lines 168-180: the blur sub-filter, then ensure_cleared of its target.
BlurStage(src, f, blur) ==
    <<Op("blur_filter.apply", [source |-> src.texture.id,
                               filter |-> inner_blur_filter(f)])>>
    \o (IF blur = None THEN <<>>
        ELSE <<Op("ensure_cleared", blur.color_texture.id)>>)

\* Lines 181-182.
ViewStage(src, blur) ==
    <<Op("create_view", src.texture.id),
      Op("create_view", BlurredTexture(src, blur).id)>>

\* NewTarget that asks for a single-sample target whatever the source.
NewTargetSingleSample(src) ==
    [width |-> src.size[1], height |-> src.size[2],
     format |-> src.texture.format,
     sample_count |-> 1,
     mode |-> "FreshWithColor(TRANSPARENT)"]

\* Lines 187-199: CommandTarget::new.
NewTarget(src) ==
    [width |-> src.size[1], height |-> src.size[2],
     format |-> src.texture.format,
     sample_count |-> src.texture.sample_count,
     mode |-> "FreshWithColor(TRANSPARENT)"]

\* Lines 244-263: the entries of the bind group.
BindGroup(src, f, blur) ==
    [b0 |-> View(src.texture),
     b1 |-> "get_sampler(false, false)",
     b2 |-> BevelUniform(f),
     b3 |-> View(BlurredTexture(src, blur))]

\* Lines 187-264: target, uniform buffer, vertices, bind group.
SetupStage(src, f, blur) ==
    <<Op("CommandTarget::new", NewTarget(src)),
      Op("create_buffer_init", BevelUniform(f)),
      Op("vertices_with_highlight_and_shadow", BlurOffset(f)),
      Op("create_bind_group", BindGroup(src, f, blur))>>

\* Lines 265-280: the render pass.
RenderPassStage(src, pipe) ==
    <<Op("begin_render_pass", NewTarget(src)),
      Op("set_pipeline", pipe),
      Op("set_bind_group", 0),
      Op("set_vertex_buffer", 0),
      Op("set_index_buffer", "Uint32"),
      Op("draw_indexed", 6),
      Op("end_render_pass", 0)>>

\* ApplyTrace with the blur sub-filter run after the bevel render pass.
ApplyTraceBlurLast(src, f, blur, pipe) ==
    <<Op("pipeline", src.texture.sample_count)>>
    \o ViewStage(src, blur)
    \o SetupStage(src, f, blur)
    \o RenderPassStage(src, pipe)
    \o BlurStage(src, f, blur)

\* Lines 165-282 in program order.
ApplyTrace(src, f, blur, pipe) ==
    <<Op("pipeline", src.texture.sample_count)>>
    \o BlurStage(src, f, blur)
    \o ViewStage(src, blur)
    \o SetupStage(src, f, blur)
    \o RenderPassStage(src, pipe)

\* ------------------------------------------------------------- inputs

\* Scenario S2 of the specification: distance 3, angle pi/2, strength 2.
BaseFilter ==
    [distance |-> 6, angle |-> [dir |-> 2, delta |-> 0], strength |-> 2,
     highlight_color |-> RGBA(255, 0, 0, 128),
     shadow_color |-> RGBA(0, 0, 255, 128),
     flags |-> {"INNER_SHADOW", "KNOCKOUT"}, blur_x |-> 0, blur_y |-> 0]

Texture(id, sample_count, format) ==
    [id |-> id, sample_count |-> sample_count, format |-> format]

BaseSource ==
    [texture |-> Texture("source", 1, "Rgba8Unorm"), size |-> <<8, 8>>]

Sources ==
    {[texture |-> Texture("source", k, fm), size |-> sz] :
        k \in {1, 4}, fm \in {"Rgba8Unorm", "Bgra8Unorm"},
        sz \in {<<8, 8>>, <<8, 4>>}}

\* The target blur_filter.apply returns when the blur is not a no-op.
BlurTarget == [color_texture |-> Texture("blurred", 1, "Rgba8Unorm")]

\* Filters of the rectangle calculation: every distance, angle and blur.
RectFilters ==
    {[BaseFilter EXCEPT !.distance = d, !.angle = an, !.blur_x = bx, !.blur_y = by] :
        d \in 0 .. MaxDist, an \in Angles, bx \in 0 .. MaxBlur, by \in 0 .. MaxBlur}

SceneColors ==
    {RGBA(255, 255, 255, 255), RGBA(0, 0, 0, 255),
     RGBA(255, 0, 0, 128), RGBA(0, 0, 255, 128)}

\* Filters of apply that sweep the colours, one of the two over all Colors.
ColorFilters ==
    {[BaseFilter EXCEPT !.highlight_color = h, !.shadow_color = s] :
        h \in Colors, s \in SceneColors}
    \cup
    {[BaseFilter EXCEPT !.highlight_color = h, !.shadow_color = s] :
        h \in SceneColors, s \in Colors}

\* Filters of apply that sweep mode flags, distance, direction and strength.
ModeFilters ==
    {[BaseFilter EXCEPT !.flags = fl, !.distance = d,
                        !.angle = [dir |-> dr, delta |-> 0], !.strength = st] :
        fl \in SUBSET Flags, d \in 0 .. MaxDist, dr \in Dirs,
        st \in 0 .. MaxStrength}

Threads == 1 .. NumThreads

\* The sample counts the callers ask for (scenario S5).
Keys == {1, 4}

IdleThread ==
    [pc |-> "idle", key |-> 1, built |-> NoPipeline, parked |-> FALSE, calls |-> 0]

\* ------------------------------------------------------------ initial

\* BevelFilter::new, lines 82-86: pipeline: Default::default().
InitCache ==
    /\ pipeline = [k \in SampleCounts |-> EmptySlot]
    /\ next_id = 1
    /\ stored = [k \in SampleCounts |-> {}]
    /\ returned = [k \in SampleCounts |-> {}]
    /\ threads = [t \in Threads |-> IdleThread]

NoCall ==
    /\ applied = 0
    /\ trace = <<>>
    /\ buffer = None
    /\ filter_group = None
    /\ target = None
    /\ dest_rect = NoRect

InitRect ==
    /\ filter \in RectFilters
    /\ source_rect \in SourceRects
    /\ source = BaseSource
    /\ blurred = None
    /\ NoCall
    /\ InitCache

InitApply ==
    /\ \/ filter \in ColorFilters /\ source = BaseSource
       \/ filter \in ModeFilters /\ source \in Sources
    /\ blurred \in {None, BlurTarget}
    /\ source_rect = Rect(0, 1, 0, 1)
    /\ NoCall
    /\ InitCache

InitThreads ==
    /\ filter = BaseFilter
    /\ source = BaseSource
    /\ blurred = None
    /\ source_rect = Rect(0, 1, 0, 1)
    /\ NoCall
    /\ InitCache

\* ------------------------------------------------------------ actions

\* BevelFilter::calculate_dest_rect, lines 127-153.
CalculateDestRect ==
    /\ dest_rect = NoRect
    /\ dest_rect' = calculate_dest_rect(filter, source_rect)
    /\ UNCHANGED <<filter, source_rect, applyVars, cacheVars, threads>>

\* BevelFilter::apply, lines 156-282, by a single caller.
Apply ==
    /\ applied < MaxApplies
    /\ LET k == source.texture.sample_count
           hit == pipeline[SlotOf(k)].state = "complete"
           pipe == PipelineFor(pipeline, k, next_id)
       IN  /\ pipeline' = CacheAfter(pipeline, k, next_id)
           /\ next_id' = IF hit THEN next_id ELSE next_id + 1
           /\ stored' = IF hit THEN stored
                        ELSE [stored EXCEPT ![k] = stored[k] \cup {pipe.id}]
           /\ returned' = [returned EXCEPT ![k] = returned[k] \cup {pipe.id}]
           /\ trace' = ApplyTrace(source, filter, blurred, pipe)
    /\ buffer' = BevelUniform(filter)
    /\ filter_group' = BindGroup(source, filter, blurred)
    /\ target' = NewTarget(source)
    /\ applied' = applied + 1
    /\ UNCHANGED <<filter, source, blurred, source_rect, dest_rect, threads>>

\* Line 167 / line 89: a caller enters pipeline(msaa_sample_count).
PipelineCall(t) ==
    /\ threads[t].pc = "idle"
    /\ threads[t].calls < MaxCalls
    /\ \E k \in Keys :
          threads' = [threads EXCEPT ![t].pc = "get", ![t].key = k,
                                     ![t].parked = FALSE, ![t].built = NoPipeline]
    /\ UNCHANGED <<filter, rectVars, applyVars, cacheVars>>

\* OnceLockGet as a plain check-then-initialise: a caller that finds the cell
\* not complete runs the initialiser itself, whoever else is running it.
OnceLockGetUnguarded(t) ==
    /\ threads[t].pc \in {"get", "parked"}
    /\ LET k == SlotOf(threads[t].key) IN
       \/ /\ pipeline[k].state = "complete"
          /\ threads' = [threads EXCEPT ![t].pc = "return"]
          /\ UNCHANGED pipeline
       \/ /\ pipeline[k].state # "complete"
          /\ pipeline' = [pipeline EXCEPT ![k].state = "running"]
          /\ threads' = [threads EXCEPT ![t].pc = "init"]
    /\ UNCHANGED <<filter, rectVars, applyVars, next_id, stored, returned>>

\* Line 90, OnceLock::get_or_init: a complete cell is read; the first caller
\* of an incomplete cell becomes its initialiser; a caller that finds the
\* initialiser running parks until the cell is complete.
OnceLockGet(t) ==
    /\ threads[t].pc \in {"get", "parked"}
    /\ LET k == SlotOf(threads[t].key) IN
       \/ /\ pipeline[k].state = "complete"
          /\ threads' = [threads EXCEPT ![t].pc = "return"]
          /\ UNCHANGED pipeline
       \/ /\ pipeline[k].state = "incomplete"
          /\ pipeline' = [pipeline EXCEPT ![k].state = "running"]
          /\ threads' = [threads EXCEPT ![t].pc = "init"]
       \/ /\ pipeline[k].state = "running"
          /\ threads[t].pc = "get"
          /\ threads' = [threads EXCEPT ![t].pc = "parked", ![t].parked = TRUE]
          /\ UNCHANGED pipeline
    /\ UNCHANGED <<filter, rectVars, applyVars, next_id, stored, returned>>

\* Lines 91-123: the initialiser's closure creates the render pipeline.
CreateRenderPipeline(t) ==
    /\ threads[t].pc = "init"
    /\ threads' = [threads EXCEPT ![t].pc = "set",
                                  ![t].built = NewPipeline(threads[t].key, next_id)]
    /\ next_id' = next_id + 1
    /\ UNCHANGED <<filter, rectVars, applyVars, pipeline, stored, returned>>

\* OnceLockSet on a cache of one entry: storing for one sample count drops
\* the pipelines of the others.
OnceLockSetEvicting(t) ==
    /\ threads[t].pc = "set"
    /\ LET k == SlotOf(threads[t].key) IN
       /\ pipeline' = [j \in SampleCounts |->
                          IF j = k
                          THEN [state |-> "complete", value |-> threads[t].built]
                          ELSE EmptySlot]
       /\ stored' = [stored EXCEPT ![k] = stored[k] \cup {threads[t].built.id}]
    /\ threads' = [threads EXCEPT ![t].pc = "return"]
    /\ UNCHANGED <<filter, rectVars, applyVars, next_id, returned>>

\* Line 90, OnceLock::get_or_init: the closure's value is stored in the cell.
OnceLockSet(t) ==
    /\ threads[t].pc = "set"
    /\ LET k == SlotOf(threads[t].key) IN
       /\ pipeline' = [pipeline EXCEPT ![k] =
                          [state |-> "complete", value |-> threads[t].built]]
       /\ stored' = [stored EXCEPT ![k] = stored[k] \cup {threads[t].built.id}]
    /\ threads' = [threads EXCEPT ![t].pc = "return"]
    /\ UNCHANGED <<filter, rectVars, applyVars, next_id, returned>>

\* Line 125: pipeline() returns the reference to the cell's value.
PipelineReturn(t) ==
    /\ threads[t].pc = "return"
    /\ LET k == SlotOf(threads[t].key) IN
       returned' = [returned EXCEPT ![threads[t].key] =
                       returned[threads[t].key] \cup {pipeline[k].value.id}]
    /\ threads' = [threads EXCEPT ![t].pc = "idle",
                                  ![t].calls = threads[t].calls + 1]
    /\ UNCHANGED <<filter, rectVars, applyVars, pipeline, next_id, stored>>

\* ------------------------------------------------------ specifications

NextRect == CalculateDestRect

SpecRect == InitRect /\ [][NextRect]_vars

NextApply == Apply

SpecApply == InitApply /\ [][NextApply]_vars

Next ==
    \E t \in Threads :
        \/ PipelineCall(t)
        \/ OnceLockGet(t)
        \/ CreateRenderPipeline(t)
        \/ OnceLockSet(t)
        \/ PipelineReturn(t)

Spec == InitThreads /\ [][Next]_vars

\* ------------------------------------------------------------- claims

\* The blur-expanded rectangle B of the call.
BlurRect == BlurDestRect(inner_blur_filter(filter), source_rect)

\* ceil(|c| * distance) for c in thousandths with a part of sign eps below.
CeilAbsMul(milli, eps, dist) ==
    CeilMul(Abs(milli), IF milli = 0 THEN Abs(eps) ELSE eps * Sgn(milli), dist)

\* C1: the rectangle calculate_dest_rect returns contains the blur rectangle
\* grown by ceil(|cos(angle)| * distance) on each x side and by
\* ceil(|sin(angle)| * distance) on each y side.
C1_DestContainsCeilOfAbs ==
    dest_rect # NoRect =>
        LET ex == CeilAbsMul(cos(filter.angle), CosEps(filter.angle), filter.distance)
            ey == CeilAbsMul(sin(filter.angle), SinEps(filter.angle), filter.distance)
        IN  /\ dest_rect.x_min <= BlurRect.x_min - ex
            /\ dest_rect.x_max >= BlurRect.x_max + ex
            /\ dest_rect.y_min <= BlurRect.y_min - ey
            /\ dest_rect.y_max >= BlurRect.y_max + ey

\* C2: with dx = ceil(cos(angle) * distance) and dy = ceil(sin(angle) *
\* distance), the sign branches return exactly the blur rectangle grown by
\* |dx| on both x sides and |dy| on both y sides; at angle pi and distance 5,
\* dx = -5 and the rectangle grows by 5 on both x sides.
C2_BranchesGrowSymmetric ==
    dest_rect # NoRect =>
        LET dx == OffsetX(filter)
            dy == OffsetY(filter)
        IN  /\ dest_rect.x_min = BlurRect.x_min - Abs(dx)
            /\ dest_rect.x_max = BlurRect.x_max + Abs(dx)
            /\ dest_rect.y_min = BlurRect.y_min - Abs(dy)
            /\ dest_rect.y_max = BlurRect.y_max + Abs(dy)
            /\ (filter.angle.dir = 4 /\ filter.distance = 10) =>
                   /\ dx = -5
                   /\ dest_rect.x_min = BlurRect.x_min - 5
                   /\ dest_rect.x_max = BlurRect.x_max + 5

\* The call of scenario S4 has returned: angle pi, distance 5, dx < 0.
C2_Witness ==
    /\ dest_rect # NoRect
    /\ filter.angle.dir = 4
    /\ filter.distance = 10
    /\ OffsetX(filter) < 0
    /\ dest_rect.x_max - dest_rect.x_min = BlurRect.x_max - BlurRect.x_min + 10

\* C3: for each sample count at most one pipeline is ever stored, and every
\* pipeline returned for it, to a racing caller or a later one, is that one.
C3_SingleInstancePerKey ==
    \A k \in SampleCounts :
        /\ Cardinality(stored[k]) <= 1
        /\ returned[k] \subseteq stored[k]
        /\ pipeline[k].state = "complete" => stored[k] = {pipeline[k].value.id}

\* Two callers raced on the first use of a key: one initialised the cell, the
\* other parked on it, and both have been returned a pipeline.
C3_Witness ==
    \E t1, t2 \in Threads :
        /\ t1 # t2
        /\ threads[t1].key = threads[t2].key
        /\ threads[t1].pc = "idle" /\ threads[t1].calls = 1
        /\ threads[t2].pc = "idle" /\ threads[t2].calls = 1
        /\ threads[t1].built # NoPipeline
        /\ threads[t2].parked
        /\ returned[threads[t1].key] = {threads[t1].built.id}

\* C4: a cell that holds a pipeline keeps that pipeline over every step, so
\* further calls with the same or another sample count leave it as it is.
C4_EntriesNeverChange ==
    [][\A k \in SampleCounts :
           pipeline[k].state = "complete" => pipeline'[k] = pipeline[k]]_vars

\* Entries for sample counts 1 and 4 are both held, after a repeated call.
C4_Witness ==
    /\ pipeline[1].state = "complete"
    /\ pipeline[4].state = "complete"
    /\ pipeline[1].value # pipeline[4].value
    /\ \E t \in Threads : threads[t].calls = 2 /\ threads[t].pc = "idle"

\* The places of the calls named op in the trace of the last apply.
At(op) == {i \in DOMAIN trace : trace[i].op = op}

Before(ops1, ops2) == \A i \in ops1, j \in ops2 : i < j

\* C5: in every apply, blur_filter.apply and then ensure_cleared of its
\* target (when one is returned) come strictly before the render pass begins;
\* the pass sets pipeline, bind group, vertex and index buffer, draws, and is
\* ended as the last thing before apply returns.
C5_BlurBeforeRenderPass ==
    applied > 0 =>
        /\ Cardinality(At("blur_filter.apply")) = 1
        /\ Cardinality(At("ensure_cleared")) = (IF blurred = None THEN 0 ELSE 1)
        /\ Before(At("blur_filter.apply"), At("ensure_cleared"))
        /\ Cardinality(At("begin_render_pass")) = 1
        /\ Before(At("blur_filter.apply") \cup At("ensure_cleared"),
                  At("begin_render_pass"))
        /\ \A op \in {"set_pipeline", "set_bind_group", "set_vertex_buffer",
                      "set_index_buffer", "draw_indexed"} :
              /\ Cardinality(At(op)) = 1
              /\ Before(At("begin_render_pass"), At(op))
              /\ Before(At(op), At("end_render_pass"))
        /\ Before(At("set_pipeline") \cup At("set_bind_group")
                  \cup At("set_vertex_buffer") \cup At("set_index_buffer"),
                  At("draw_indexed"))
        /\ At("end_render_pass") = {Len(trace)}

\* An apply whose blur sub-filter returned a target has returned.
C5_Witness ==
    /\ applied > 0
    /\ blurred # None
    /\ At("ensure_cleared") # {}
    /\ At("draw_indexed") # {}

\* C6: binding 0 is a view of the source texture; binding 3 is a view of the
\* source texture when the blur sub-filter returns none, and else a view of
\* the blur target's colour texture, whose ensure_cleared comes before that
\* view is created and before the draw.
C6_BlurredBinding ==
    applied > 0 =>
        /\ filter_group.b0 = View(source.texture)
        /\ blurred = None => filter_group.b3 = View(source.texture)
        /\ blurred # None =>
              /\ filter_group.b3 = View(blurred.color_texture)
              /\ At("ensure_cleared") # {}
              /\ \A i \in At("ensure_cleared") :
                    trace[i].arg = blurred.color_texture.id
              /\ Before(At("ensure_cleared"),
                        {i \in At("create_view") :
                            trace[i].arg = blurred.color_texture.id})
              /\ {i \in At("create_view") :
                     trace[i].arg = blurred.color_texture.id} # {}
              /\ Before(At("ensure_cleared"), At("draw_indexed"))
        /\ \A i \in At("create_bind_group") :
              /\ trace[i].arg = filter_group
              /\ Before(At("create_view"), {i})

\* An apply with a blur target has returned; bindings 0 and 3 differ.
C6_Witness ==
    /\ applied > 0
    /\ blurred = BlurTarget
    /\ filter_group.b3 # filter_group.b0

\* Equality of two fractions.
RatEq(x, y) ==
    IF x.den = y.den THEN x.num = y.num ELSE x.num * y.den = y.num * x.den

Frac(n, d) == [num |-> n, den |-> d]

\* The colour (r*a/255^2, g*a/255^2, b*a/255^2, a/255) of an 8-bit colour.
PremultipliedIs(packed, c) ==
    /\ RatEq(packed.r, Frac(c.r * c.a, 255 * 255))
    /\ RatEq(packed.g, Frac(c.g * c.a, 255 * 255))
    /\ RatEq(packed.b, Frac(c.b * c.a, 255 * 255))
    /\ RatEq(packed.a, Frac(c.a, 255))
    /\ c.a = 0 => \A ch \in {packed.r, packed.g, packed.b, packed.a} : ch.num = 0

\* C7: the uniform holds, for highlight and shadow, each colour channel
\* normalised and multiplied once by the normalised alpha, and the alpha
\* only normalised; a colour of alpha 0 is packed as (0, 0, 0, 0).
C7_Premultiplied ==
    applied > 0 =>
        /\ PremultipliedIs(buffer.highlight_color, filter.highlight_color)
        /\ PremultipliedIs(buffer.shadow_color, filter.shadow_color)

\* An apply with a half-transparent, half-bright highlight has returned.
C7_Witness ==
    /\ applied > 0
    /\ filter.highlight_color = RGBA(128, 255, 0, 128)
    /\ buffer.highlight_color.r = Frac(128 * 128, 255 * 255)

\* C8: bevel_type is 2 for Full (on top, also with the inner flag set), 1 for
\* Inner, 0 for Outer; knockout is 1 exactly when the knockout flag is set;
\* composite_source is 1; whatever the distance, angle and strength.
C8_ModePacking ==
    applied > 0 =>
        /\ buffer.bevel_type \in {0, 1, 2}
        /\ is_on_top(filter) => buffer.bevel_type = 2
        /\ (~is_on_top(filter) /\ is_inner(filter)) => buffer.bevel_type = 1
        /\ (~is_on_top(filter) /\ ~is_inner(filter)) => buffer.bevel_type = 0
        /\ buffer.knockout = 1 <=> is_knockout(filter)
        /\ buffer.knockout \in {0, 1}
        /\ buffer.composite_source = 1

\* A Full bevel with the inner flag set and distance 0 has been applied.
C8_Witness ==
    /\ applied > 0
    /\ is_on_top(filter) /\ is_inner(filter)
    /\ filter.distance = 0
    /\ buffer.bevel_type = 2

\* x is within 0.001 of milli / 1000.
Approx(x, milli) == Abs(x.num * 1000 - milli * x.den) <= x.den

ScenarioS2 ==
    /\ filter.distance = 6
    /\ filter.angle = [dir |-> 2, delta |-> 0]
    /\ filter.strength = 2
    /\ filter.highlight_color = RGBA(255, 0, 0, 128)
    /\ filter.shadow_color = RGBA(0, 0, 255, 128)
    /\ filter.flags = {"INNER_SHADOW", "KNOCKOUT"}

\* What scenario S2 yields apart from the two colours.
S2Rest ==
    /\ buffer.bevel_type = 1
    /\ buffer.knockout = 1
    /\ \E i \in At("vertices_with_highlight_and_shadow") :
          trace[i].arg = <<0, 3 * 2000>>

\* C9 as stated: scenario S2 yields bevel_type 1, knockout 1, highlight
\* about (0.502 * 0.502, 0, 0, 0.502), shadow about (0, 0, 0.502 * 0.502,
\* 0.502) and blur_offset (cos(pi/2) * 3, sin(pi/2) * 3).
C9_AsStated ==
    (applied > 0 /\ ScenarioS2) =>
        /\ S2Rest
        /\ Approx(buffer.highlight_color.r, 252)
        /\ Approx(buffer.highlight_color.g, 0)
        /\ Approx(buffer.highlight_color.b, 0)
        /\ Approx(buffer.highlight_color.a, 502)
        /\ Approx(buffer.shadow_color.r, 0)
        /\ Approx(buffer.shadow_color.g, 0)
        /\ Approx(buffer.shadow_color.b, 252)
        /\ Approx(buffer.shadow_color.a, 502)

\* C9 amended: scenario S2 yields bevel_type 1, knockout 1, highlight about
\* (0.502, 0, 0, 0.502), shadow about (0, 0, 0.502, 0.502) and blur_offset
\* (cos(pi/2) * 3, sin(pi/2) * 3): the full red and blue channels, 255/255,
\* are multiplied by the alpha 0.502 once.
C9_ScenarioS2 ==
    (applied > 0 /\ ScenarioS2) =>
        /\ S2Rest
        /\ Approx(buffer.highlight_color.r, 502)
        /\ Approx(buffer.highlight_color.g, 0)
        /\ Approx(buffer.highlight_color.b, 0)
        /\ Approx(buffer.highlight_color.a, 502)
        /\ Approx(buffer.shadow_color.r, 0)
        /\ Approx(buffer.shadow_color.g, 0)
        /\ Approx(buffer.shadow_color.b, 502)
        /\ Approx(buffer.shadow_color.a, 502)

\* Scenario S2 has been applied.
C9_Witness == applied > 0 /\ ScenarioS2 /\ buffer.strength = 2

\* C10: the returned target is acquired after the blur sub-pass, with the
\* source's width and height and the source texture's format and sample
\* count, initialised to transparent; the pipeline set on the render pass is
\* the cache entry of that sample count, whose multisample count is the
\* target's sample count.
C10_TargetMatchesPipeline ==
    applied > 0 =>
        /\ target.width = source.size[1]
        /\ target.height = source.size[2]
        /\ target.format = source.texture.format
        /\ target.sample_count = source.texture.sample_count
        /\ target.mode = "FreshWithColor(TRANSPARENT)"
        /\ Cardinality(At("CommandTarget::new")) = 1
        /\ \A i \in At("CommandTarget::new") : trace[i].arg = target
        /\ \A i \in At("begin_render_pass") : trace[i].arg = target
        /\ Before(At("blur_filter.apply"), At("CommandTarget::new"))
        /\ pipeline[source.texture.sample_count].state = "complete"
        /\ Cardinality(At("set_pipeline")) = 1
        /\ \A i \in At("set_pipeline") :
              /\ trace[i].arg = pipeline[source.texture.sample_count].value
              /\ trace[i].arg.count = target.sample_count

\* A second apply on a 4-sample source of another format and a non-square
\* size has returned, its pipeline taken from the cache.
C10_Witness ==
    /\ applied = 2
    /\ source.texture.sample_count = 4
    /\ source.texture.format = "Bgra8Unorm"
    /\ source.size = <<8, 4>>
    /\ target.sample_count = 4
    /\ next_id = 2

====
